---------------------------- MODULE Spec2Model ----------------------------
(***************************************************************************)
(* duration-calculator-rs (src/src/main.rs): the duration parser           *)
(* (DurationParse::from_str / token_to_duration), the saturating           *)
(* arithmetic (DurationCalculate), the formatter (DisplayableDuration) and *)
(* the accumulation in main.                                               *)
(*                                                                         *)
(* A text is a sequence of one-character strings.  A chrono Duration is    *)
(* the pair chrono keeps, whole seconds and a sub-second part in 0..999    *)
(* milliseconds (chrono keeps nanoseconds; every value of this program is  *)
(* a whole number of milliseconds).  Duration::MAX is i64::MAX             *)
(* milliseconds and Duration::MIN is -Duration::MAX.  TLC's integers are   *)
(* 32 bits wide, so the two widths of the program are scaled down:         *)
(* I64_MAX stands for i64::MAX and MaxSecs for the whole seconds of        *)
(* Duration::MAX (i64::MAX / 1000).  The unit table is not scaled.         *)
(***************************************************************************)
EXTENDS Integers, Sequences, FiniteSets, TLC

VARIABLES
    build,              \* "debug" (overflow checks on) or "release" (wrapping)
    pc,                 \* position of the running operation
    input,              \* from_str: its argument
    line,               \* from_str: the normalised line (main.rs:232-237)
    groups,             \* from_str: captures of DURATION_COMPOSITE_PATTERN left
    inner,              \* from_str: captures of DURATION_PATTERN left in the group
    sign,               \* from_str: caps["sign"] of the current group
    duration,           \* from_str: the running total
    result,             \* from_str: what it returned
    self_d,             \* saturated_add / saturated_sub: &self
    rhs_d,              \* saturated_add / saturated_sub: rhs
    ret,                \* saturated_add / saturated_sub: the returned Duration
    stdin_redirected,   \* main: !io::stdin().is_terminal()
    lines,              \* main: the lines of stdin
    line_no,            \* main: how many of them the loop has read
    arg_str,            \* main: args_duration.join(" ")
    compact,            \* main: the --compact flag
    d,                  \* main: the accumulator
    printed,            \* main: the stdin sum was printed
    stdout              \* main: the lines printed so far

vars == <<build, pc, input, line, groups, inner, sign, duration, result,
          self_d, rhs_d, ret, stdin_redirected, lines, line_no, arg_str,
          compact, d, printed, stdout>>

parseVars == <<input, line, groups, inner, sign, duration, result>>
arithVars == <<self_d, rhs_d, ret>>
mainVars == <<stdin_redirected, lines, line_no, arg_str, compact, d, printed,
              stdout>>

---------------------------------------------------------------------------
(* Bounds *)

\* Whole seconds of Duration::MAX (stands for i64::MAX / 1000).
MaxSecs == 40000000

\* Stands for i64::MAX, the width of a parsed count.
I64_MAX == 268435455

\* An input line is a concatenation of at most MaxFrags fragments.
MaxFrags == 3

\* main reads at most MaxLines lines from stdin.
MaxLines == 2

\* Durations sampled within SampleSpan seconds of zero and of each boundary.
SampleSpan == 2

---------------------------------------------------------------------------
(* chrono::Duration *)

Dur(s, ms) == [secs |-> s, millis |-> ms]

Duration_zero == Dur(0, 0)

Duration_MAX == Dur(MaxSecs, 807)

Duration_MIN == Dur(-MaxSecs - 1, 193)

\* Option<T>, and the panic that ends the process
Some(x) == [kind |-> "Some", val |-> x]

None == [kind |-> "None"]

Panic == [kind |-> "Panic"]

\* derived Ord on (secs, nanos)
DurLess(x, y) ==
    \/ x.secs < y.secs
    \/ x.secs = y.secs /\ x.millis < y.millis

InBounds(x) == ~DurLess(x, Duration_MIN) /\ ~DurLess(Duration_MAX, x)

checked_add(a, b) ==
    LET ms == a.millis + b.millis
        carry == IF ms >= 1000 THEN 1 ELSE 0
        x == Dur(a.secs + b.secs + carry, ms - 1000 * carry)
    IN  IF InBounds(x) THEN Some(x) ELSE None

checked_sub(a, b) ==
    LET ms == a.millis - b.millis
        borrow == IF ms < 0 THEN 1 ELSE 0
        x == Dur(a.secs - b.secs - borrow, ms + 1000 * borrow)
    IN  IF InBounds(x) THEN Some(x) ELSE None

\* rounds towards zero
num_seconds(x) == IF x.secs < 0 /\ x.millis > 0 THEN x.secs + 1 ELSE x.secs

unwrap_or(opt, dflt) == IF opt.kind = "Some" THEN opt.val ELSE dflt

\* a slip of the fallback: the other boundary
saturated_add_Min(a, b) == unwrap_or(checked_add(a, b), Duration_MIN)

saturated_add(a, b) == unwrap_or(checked_add(a, b), Duration_MAX)

saturated_sub(a, b) == unwrap_or(checked_sub(a, b), Duration_MIN)

---------------------------------------------------------------------------
(* Integers as Rust has them *)

\* i64 `/` and `%` truncate towards zero (the divisor is positive here)
RustDiv(a, b) == IF a >= 0 THEN a \div b ELSE -((-a) \div b)

RustRem(a, b) == a - b * RustDiv(a, b)

Digits == <<"0", "1", "2", "3", "4", "5", "6", "7", "8", "9">>

RECURSIVE DecimalOf(_)
DecimalOf(n) ==
    IF n < 10 THEN <<Digits[n + 1]>>
    ELSE DecimalOf(n \div 10) \o <<Digits[(n % 10) + 1]>>

\* "{}" of an i64
FmtInt(i) == IF i < 0 THEN <<"-">> \o DecimalOf(-i) ELSE DecimalOf(i)

\* "{:02}" of an i64: zero-padded to a width of two, the sign counted
FmtInt02(i) ==
    LET s == FmtInt(i)
    IN  IF Len(s) >= 2 THEN s ELSE <<"0">> \o s

---------------------------------------------------------------------------
(* impl fmt::Display for DisplayableDuration *)

\* a slip of the decomposition: the minutes not reduced modulo the hour
DisplayFmt_MinutesNotReduced(self0, self1) ==
    LET sgn == IF DurLess(self0, Duration_zero) THEN -1 ELSE 1
        n == sgn * num_seconds(self0)
        hours == RustDiv(n, 3600)
        minutes == RustDiv(n, 60)
        seconds == RustRem(n, 60)
        sep == IF self1 THEN <<>> ELSE <<" ">>
    IN  (IF sgn < 0 THEN <<"-">> ELSE <<>>)
        \o FmtInt(hours) \o <<"h">> \o sep
        \o FmtInt02(minutes) \o <<"m">> \o sep
        \o FmtInt02(seconds) \o <<"s">>

DisplayFmt(self0, self1) ==
    LET sgn == IF DurLess(self0, Duration_zero) THEN -1 ELSE 1
        n == sgn * num_seconds(self0)
        hours == RustDiv(n, 3600)
        minutes == RustDiv(RustRem(n, 3600), 60)
        seconds == RustRem(n, 60)
    IN  IF self1
        THEN (IF sgn < 0 THEN <<"-">> ELSE <<>>)
             \o FmtInt(hours) \o <<"h">>
             \o FmtInt02(minutes) \o <<"m">>
             \o FmtInt02(seconds) \o <<"s">>
        ELSE (IF sgn < 0 THEN <<"-">> ELSE <<>>)
             \o FmtInt(hours) \o <<"h", " ">>
             \o FmtInt02(minutes) \o <<"m", " ">>
             \o FmtInt02(seconds) \o <<"s">>

---------------------------------------------------------------------------
(* The three patterns of from_str (regex crate: leftmost-first, greedy;   *)
(* \s and \d are the Unicode classes)                                      *)

\* \s, as far as the inputs go
WhiteSpace == {" "}

AsciiDigit == {"0", "1", "2", "3", "4", "5", "6", "7", "8", "9"}

\* \d: the Unicode decimal digits; "U+0663" is ARABIC-INDIC DIGIT THREE
DecimalDigit == AsciiDigit \cup {"U+0663"}

\* [+-]
SignChars == {"+", "-"}

\* (?:y|d|h|m|s) of LINE_PATTERN and DURATION_COMPOSITE_PATTERN
LineUnits == {"y", "d", "h", "m", "s"}

\* (?P<unit>y|d|h|m|min|s) of DURATION_PATTERN, in the order tried
UnitAlternatives ==
    << <<"y">>, <<"d">>, <<"h">>, <<"m">>, <<"m", "i", "n">>, <<"s">> >>

\* Positions are 1..Len(s)+1: the index of the next character to read.
\* C* from any position of P
StarOf(s, P, C) ==
    {j \in 1..(Len(s) + 1) :
        \E i \in P : i <= j /\ \A k \in i..(j - 1) : s[k] \in C}

\* C+ from any position of P
PlusOf(s, P, C) ==
    {j \in 1..(Len(s) + 1) :
        \E i \in P : i < j /\ \A k \in i..(j - 1) : s[k] \in C}

\* one character of C from any position of P
OneOf(s, P, C) == {i + 1 : i \in {k \in P : k <= Len(s) /\ s[k] \in C}}

\* \d+\s*(?:y|d|h|m|s)\s*
LineTerm(s, P) ==
    StarOf(s, OneOf(s, StarOf(s, PlusOf(s, P, DecimalDigit), WhiteSpace),
                    LineUnits), WhiteSpace)

\* (?:\d+\s*(?:y|d|h|m|s)\s*)+
RECURSIVE LineTerms(_, _, _)
LineTerms(s, frontier, acc) ==
    LET nxt == LineTerm(s, frontier) \ acc
    IN  IF nxt = {} THEN acc ELSE LineTerms(s, nxt, acc \cup nxt)

\* \s*[+-]\s*(?:\d+\s*(?:y|d|h|m|s)\s*)+
LineGroup(s, P) ==
    LineTerms(s, StarOf(s, OneOf(s, StarOf(s, P, WhiteSpace), SignChars),
                        WhiteSpace), {})

\* (?:\s*[+-]\s*(?:\d+\s*(?:y|d|h|m|s)\s*)+)+
RECURSIVE LineGroups(_, _, _)
LineGroups(s, frontier, acc) ==
    LET nxt == LineGroup(s, frontier) \ acc
    IN  IF nxt = {} THEN acc ELSE LineGroups(s, nxt, acc \cup nxt)

\* a slip of the pattern: the closing $ left out
LINE_PATTERN_is_match_NoEnd(s) == LineGroups(s, {1}, {}) # {}

\* LINE_PATTERN.is_match(line): ^ ... $
LINE_PATTERN_is_match(s) == (Len(s) + 1) \in LineGroups(s, {1}, {})

\* the end of the longest run of C from i (a greedy C*)
RECURSIVE RunEnd(_, _, _)
RunEnd(s, i, C) ==
    IF i <= Len(s) /\ s[i] \in C THEN RunEnd(s, i + 1, C) ELSE i

\* One \d+\s*(?:y|d|h|m|s)\s* at i: the position after it, or 0.  Giving
\* back a digit or a blank never lets the unit match, so the greedy runs
\* decide.
CompositeTermEnd(s, i) ==
    LET j == RunEnd(s, i, DecimalDigit)
        k == RunEnd(s, j, WhiteSpace)
    IN  IF j > i /\ k <= Len(s) /\ s[k] \in LineUnits
        THEN RunEnd(s, k + 1, WhiteSpace)
        ELSE 0

\* the end of the greedy (?: ... )+ whose first term ended at i
RECURSIVE CompositeTermsEnd(_, _)
CompositeTermsEnd(s, i) ==
    LET e == CompositeTermEnd(s, i)
    IN  IF e = 0 THEN i ELSE CompositeTermsEnd(s, e)

\* DURATION_COMPOSITE_PATTERN at p.  The \s* after the sign takes every
\* blank, so caps["duration"] starts at the first digit and runs to the
\* end of the blanks after the last term.
CompositeMatchAt(s, p) ==
    LET q == RunEnd(s, p + 1, WhiteSpace)
        first == CompositeTermEnd(s, q)
        e == IF first = 0 THEN 0 ELSE CompositeTermsEnd(s, first)
    IN  IF p <= Len(s) /\ s[p] \in SignChars /\ first # 0
        THEN [ok |-> TRUE, sign |-> s[p],
              duration |-> SubSeq(s, q, e - 1), end |-> e]
        ELSE [ok |-> FALSE]

\* DURATION_COMPOSITE_PATTERN.captures_iter(line), searching from `from`
RECURSIVE CompositeCaptures(_, _)
CompositeCaptures(s, from) ==
    IF from > Len(s) THEN <<>>
    ELSE LET m == CompositeMatchAt(s, from)
         IN  IF m.ok
             THEN <<[sign |-> m.sign, duration |-> m.duration]>>
                  \o CompositeCaptures(s, m.end)
             ELSE CompositeCaptures(s, from + 1)

IsPrefixAt(s, k, w) ==
    /\ k + Len(w) - 1 <= Len(s)
    /\ SubSeq(s, k, k + Len(w) - 1) = w

\* the first alternative of (?P<unit>...) that matches at k, or 0
FirstUnitAt(s, k) ==
    LET hits == {a \in 1..Len(UnitAlternatives) :
                    IsPrefixAt(s, k, UnitAlternatives[a])}
    IN  IF hits = {} THEN 0
        ELSE CHOOSE a \in hits : \A b \in hits : a <= b

\* DURATION_PATTERN at i
DurationMatchAt(s, i) ==
    LET j == RunEnd(s, i, DecimalDigit)
        k == RunEnd(s, j, WhiteSpace)
        a == FirstUnitAt(s, k)
    IN  IF j > i /\ a # 0
        THEN [ok |-> TRUE, count |-> SubSeq(s, i, j - 1),
              unit |-> UnitAlternatives[a],
              end |-> k + Len(UnitAlternatives[a])]
        ELSE [ok |-> FALSE]

\* DURATION_PATTERN.captures_iter(&caps["duration"]), searching from `from`
RECURSIVE DurationCaptures(_, _)
DurationCaptures(s, from) ==
    IF from > Len(s) THEN <<>>
    ELSE LET m == DurationMatchAt(s, from)
         IN  IF m.ok
             THEN <<[count |-> m.count, unit |-> m.unit]>>
                  \o DurationCaptures(s, m.end)
             ELSE DurationCaptures(s, from + 1)

---------------------------------------------------------------------------
(* DurationParse for Duration *)

RECURSIVE StripZeros(_)
StripZeros(t) ==
    IF Len(t) > 1 /\ t[1] = "0" THEN StripZeros(Tail(t)) ELSE t

DigitValue(c) == CHOOSE v \in 0..9 : Digits[v + 1] = c

RECURSIVE NatOf(_)
NatOf(t) ==
    IF t = <<>> THEN 0
    ELSE 10 * NatOf(SubSeq(t, 1, Len(t) - 1)) + DigitValue(t[Len(t)])

\* i64::from_str(&inner_caps["count"]): Err (None here) on a character that
\* is no ASCII digit and on a value above i64::MAX.  A count of more than
\* nine significant digits is above I64_MAX.
i64_from_str(t) ==
    IF t = <<>> \/ \E i \in 1..Len(t) : t[i] \notin AsciiDigit THEN None
    ELSE LET z == StripZeros(t)
         IN  IF Len(z) > 9 THEN None
             ELSE IF NatOf(z) > I64_MAX THEN None
             ELSE Some(NatOf(z))

\* (a * k) mod m without leaving the 32 bits of TLC, a < m
RECURSIVE MulMod(_, _, _)
MulMod(a, k, m) ==
    IF k = 0 THEN 0
    ELSE LET h == MulMod(a, k \div 2, m)
             dbl == (h + h) % m
         IN  IF k % 2 = 1 THEN (dbl + a) % m ELSE dbl

\* 365 * count on i64: the product when it fits; otherwise a panic with
\* overflow checks (debug) and the two's complement wrap without (release)
Mul365(count, bld) ==
    IF count <= I64_MAX \div 365 THEN Some(365 * count)
    ELSE IF bld = "debug" THEN Panic
    ELSE LET m == 2 * (I64_MAX + 1)
             r == MulMod(count, 365, m)
         IN  Some(IF r > I64_MAX THEN r - m ELSE r)

\* Duration::days / hours / minutes / seconds: n units of `per` seconds;
\* chrono panics ("out of bounds") outside Duration::MIN..Duration::MAX
DurationOf(n, per) ==
    IF n > MaxSecs \div per \/ n < -(MaxSecs \div per) THEN Panic
    ELSE Some(Dur(n * per, 0))

Duration_days(n) == DurationOf(n, 86400)

Duration_hours(n) == DurationOf(n, 3600)

Duration_minutes(n) == DurationOf(n, 60)

Duration_seconds(n) == DurationOf(n, 1)

\* token_to_duration(count, unit): Some(Some(d)), Some(None) for a unit
\* that is not in the table, or the panic of the constructor
token_to_duration(count, unit, bld) ==
    CASE unit = <<"y">> ->
            LET p == Mul365(count, bld)
            IN  IF p.kind = "Panic" THEN Panic
                ELSE LET x == Duration_days(p.val)
                     IN  IF x.kind = "Panic" THEN Panic ELSE Some(x)
      [] unit = <<"d">> ->
            LET x == Duration_days(count)
            IN  IF x.kind = "Panic" THEN Panic ELSE Some(x)
      [] unit = <<"h">> ->
            LET x == Duration_hours(count)
            IN  IF x.kind = "Panic" THEN Panic ELSE Some(x)
      [] unit = <<"m">> ->
            LET x == Duration_minutes(count)
            IN  IF x.kind = "Panic" THEN Panic ELSE Some(x)
      [] unit = <<"s">> ->
            LET x == Duration_seconds(count)
            IN  IF x.kind = "Panic" THEN Panic ELSE Some(x)
      [] OTHER -> Some(None)

\* a slip of the match on caps["sign"]: both signs add
operator_function_AlwaysAdd(sgn, a, b) == checked_add(a, b)

\* operator_function: Duration::checked_add for "+", checked_sub for "-"
operator_function(sgn, a, b) ==
    IF sgn = "+" THEN checked_add(a, b) ELSE checked_sub(a, b)

\* a slip of the overflow arm: the running total kept instead of the term
ApplyTerm_KeepTotal(dur, sgn, cap, bld) ==
    LET count == i64_from_str(cap.count)
    IN  IF count.kind = "None" THEN Panic
        ELSE LET t == token_to_duration(count.val, cap.unit, bld)
             IN  IF t.kind = "Panic" THEN Panic
                 ELSE IF t.val.kind = "None" THEN Some(dur)
                 ELSE LET dd == operator_function(sgn, dur, t.val.val)
                      IN  Some(IF dd.kind = "Some" THEN dd.val ELSE dur)

\* The body of the inner loop (main.rs:253-260): the new running total, or
\* the panic of unwrap() or of the Duration constructor.
ApplyTerm(dur, sgn, cap, bld) ==
    LET count == i64_from_str(cap.count)
    IN  IF count.kind = "None" THEN Panic
        ELSE LET t == token_to_duration(count.val, cap.unit, bld)
             IN  IF t.kind = "Panic" THEN Panic
                 ELSE IF t.val.kind = "None" THEN Some(dur)
                 ELSE LET dd == operator_function(sgn, dur, t.val.val)
                      IN  Some(IF dd.kind = "Some" THEN dd.val ELSE t.val.val)

\* input.split('#').next().unwrap()
RECURSIVE BeforeHash(_)
BeforeHash(t) ==
    IF t = <<>> \/ t[1] = "#" THEN <<>>
    ELSE <<t[1]>> \o BeforeHash(Tail(t))

\* main.rs:232-237, for a non-empty input: the sign is looked for in the
\* first character of the input, then the comment is cut
NormalizedLine(inp) ==
    BeforeHash(IF inp[1] \in SignChars THEN inp ELSE <<"+">> \o inp)

\* the inner loop over one group's terms
RECURSIVE FoldTerms(_, _, _, _)
FoldTerms(dur, sgn, caps, bld) ==
    IF caps = <<>> THEN Some(dur)
    ELSE LET r == ApplyTerm(dur, sgn, caps[1], bld)
         IN  IF r.kind = "Panic" THEN Panic
             ELSE FoldTerms(r.val, sgn, Tail(caps), bld)

\* the outer loop over the groups
RECURSIVE FoldGroups(_, _, _)
FoldGroups(dur, gs, bld) ==
    IF gs = <<>> THEN Some(dur)
    ELSE LET r == FoldTerms(dur, gs[1].sign,
                            DurationCaptures(gs[1].duration, 1), bld)
         IN  IF r.kind = "Panic" THEN Panic
             ELSE FoldGroups(r.val, Tail(gs), bld)

\* Duration::from_str(input) as one call: Some(d), None, or a panic
from_str(inp, bld) ==
    IF inp = <<>> THEN Some(Duration_zero)
    ELSE LET ln == NormalizedLine(inp)
         IN  IF ~LINE_PATTERN_is_match(ln) THEN None
             ELSE FoldGroups(Duration_zero, CompositeCaptures(ln, 1), bld)

---------------------------------------------------------------------------
(* Inputs *)

Builds == {"debug", "release"}

\* pieces an input line is put together from
Fragments ==
    { <<"+">>,
      <<"-">>,
      <<" ">>,
      <<"#">>,
      <<"1">>,
      <<"y">>,
      <<"1", "y">>,
      <<"m">>,
      <<"3", "h">>,
      <<"2", "d">>,
      <<"4", "0", "s">>,
      <<"i", "n">>,
      <<"U+0663">> }

\* the texts made of at most n fragments
RECURSIVE FragTexts(_)
FragTexts(n) ==
    IF n = 0 THEN {<<>>}
    ELSE LET prev == FragTexts(n - 1)
         IN  prev \cup {t \o f : t \in prev, f \in Fragments}

\* the lines of tests::test_from_str and of the module documentation, and
\* lines with counts at and beyond the integer widths
Examples ==
    { <<"3", "d", " ", "2", "0", "h", " ", "1", "0", "m", " ", "1", "5", "s">>,
      <<"+", "2", "d", " ", "5", "h">>,
      <<"-", "1", "y", " ", "3", "h", " ", "+", " ", "4", "0", "m">>,
      <<"+", "3", "h", "-", "2", "m">>,
      <<"2", "d", " ", "5", "h", " ", "#", " ", "C">>,
      <<"-", "2", "d", " ", "5", "h", " ", "#", " ", "C">>,
      <<"-", "1", "y", " ", "3", "h", " ", "4", "0", "m">>,
      <<"-", " ", "2", "m">>,
      <<"2", "4", "h">>,
      <<"0", "y">>,
      <<"5">>,
      <<"5", "x">>,
      <<"a", "b", "c">>,
      <<"5", "m", "i", "n">>,
      <<"5", " ", "m">>,
      <<" ", " ", " ">>,
      <<"#", " ", "c">>,
      <<" ", "-", "5", "m">>,
      <<"9", "9", "9", "9", "9", "9", "9", "9", "9", "s">>,
      <<"0", "0", "0", "0", "0", "0", "0", "0", "0", "1", "d">>,
      <<"9", "9", "9", "9", "9", "9", "9", "9", "9", "9", "s">>,
      <<"7", "3", "5", "4", "4", "1", "y">>,
      <<"1", "8", "8", "2", "7", "2", "5", "3", "9", "y">>,
      <<"U+0663", "s">>,
      <<"1", "y", " ", "+", " ", "1", "y">>,
      <<"-", "1", "y", " ", "-", " ", "1", "y", " ", "1", "y">>,
      <<"1", "y", " ", "3", "d", " ", "-", " ", "1", "y", " ", "3", "d">> }

Inputs == FragTexts(MaxFrags) \cup Examples

SampleSecs ==
    ((-MaxSecs - 1)..(-MaxSecs + SampleSpan))
    \cup ((-SampleSpan)..SampleSpan)
    \cup ((MaxSecs - SampleSpan)..MaxSecs)
    \cup {59, 60, 61, 3599, 3600, 3661, 5400, 86399, 86400, 331815}
    \cup {-59, -60, -61, -3599, -3600, -3661, -5400, -86399, -86400, -331815}

\* the sub-second parts of zero, Duration::MIN and Duration::MAX
SampleMillis == {0, 193, 807}

DurationSamples ==
    {x \in {Dur(sec, ms) : sec \in SampleSecs, ms \in SampleMillis} :
        InBounds(x)}

\* stdin lines and argument strings of main
StdinLines ==
    { <<"2", "4", "h">>, <<"2", "4", "m">>, <<"1", "y">>, <<"-", "1", "y">>,
      <<>>, <<"#">> }

RECURSIVE SeqsUpTo(_, _)
SeqsUpTo(S, n) ==
    IF n = 0 THEN {<<>>}
    ELSE LET prev == SeqsUpTo(S, n - 1)
         IN  prev \cup {Append(q, x) : q \in prev, x \in S}

ArgStrs ==
    { <<>>, <<"2", "5", "m">>, <<"-", "1", "y">>, <<"a", "b", "c">> }

Pending == [kind |-> "Pending"]

---------------------------------------------------------------------------
(* Duration::from_str, step by step *)

ParseIdle ==
    /\ input = <<>> /\ line = <<>> /\ groups = <<>> /\ inner = <<>>
    /\ sign = "" /\ duration = Duration_zero /\ result = Pending

ArithIdle == self_d = Duration_zero /\ rhs_d = Duration_zero /\ ret = Pending

MainIdle ==
    /\ stdin_redirected = FALSE /\ lines = <<>> /\ line_no = 0
    /\ arg_str = <<>> /\ compact = FALSE /\ d = Duration_zero
    /\ printed = FALSE /\ stdout = <<>>

ParseInit ==
    /\ build \in Builds
    /\ input \in Inputs
    /\ pc = "from_str"
    /\ line = <<>> /\ groups = <<>> /\ inner = <<>> /\ sign = ""
    /\ duration = Duration_zero
    /\ result = Pending
    /\ ArithIdle /\ MainIdle

\* main.rs:227-229
FromStrEmpty ==
    /\ pc = "from_str"
    /\ input = <<>>
    /\ result' = Some(duration)
    /\ pc' = "returned"
    /\ UNCHANGED <<build, input, line, groups, inner, sign, duration>>
    /\ UNCHANGED <<arithVars, mainVars>>

\* main.rs:232-241: the line fails LINE_PATTERN
FromStrReject ==
    /\ pc = "from_str"
    /\ input # <<>>
    /\ ~LINE_PATTERN_is_match(NormalizedLine(input))
    /\ line' = NormalizedLine(input)
    /\ result' = None
    /\ pc' = "returned"
    /\ UNCHANGED <<build, input, groups, inner, sign, duration>>
    /\ UNCHANGED <<arithVars, mainVars>>

\* main.rs:232-243: the line passes and the outer iterator is made
FromStrAccept ==
    /\ pc = "from_str"
    /\ input # <<>>
    /\ LINE_PATTERN_is_match(NormalizedLine(input))
    /\ line' = NormalizedLine(input)
    /\ groups' = CompositeCaptures(NormalizedLine(input), 1)
    /\ pc' = "groups"
    /\ UNCHANGED <<build, input, inner, sign, duration, result>>
    /\ UNCHANGED <<arithVars, mainVars>>

\* main.rs:243-251: the next group, its operator and its inner iterator
NextGroup ==
    /\ pc = "groups"
    /\ groups # <<>>
    /\ sign' = groups[1].sign
    /\ inner' = DurationCaptures(groups[1].duration, 1)
    /\ groups' = Tail(groups)
    /\ pc' = "terms"
    /\ UNCHANGED <<build, input, line, duration, result>>
    /\ UNCHANGED <<arithVars, mainVars>>

\* main.rs:251-263: one term
NextTerm ==
    /\ pc = "terms"
    /\ inner # <<>>
    /\ ApplyTerm(duration, sign, inner[1], build).kind = "Some"
    /\ duration' = ApplyTerm(duration, sign, inner[1], build).val
    /\ inner' = Tail(inner)
    /\ UNCHANGED <<build, pc, input, line, groups, sign, result>>
    /\ UNCHANGED <<arithVars, mainVars>>

\* main.rs:253-254: unwrap() of the count, or the Duration constructor, panics
TermPanics ==
    /\ pc = "terms"
    /\ inner # <<>>
    /\ ApplyTerm(duration, sign, inner[1], build).kind = "Panic"
    /\ pc' = "panicked"
    /\ UNCHANGED <<build, input, line, groups, inner, sign, duration, result>>
    /\ UNCHANGED <<arithVars, mainVars>>

\* main.rs:263-264: the inner iterator is exhausted
EndGroup ==
    /\ pc = "terms"
    /\ inner = <<>>
    /\ pc' = "groups"
    /\ UNCHANGED <<build, input, line, groups, inner, sign, duration, result>>
    /\ UNCHANGED <<arithVars, mainVars>>

\* main.rs:264-266
FromStrReturn ==
    /\ pc = "groups"
    /\ groups = <<>>
    /\ result' = Some(duration)
    /\ pc' = "returned"
    /\ UNCHANGED <<build, input, line, groups, inner, sign, duration>>
    /\ UNCHANGED <<arithVars, mainVars>>

ParseNext ==
    \/ FromStrEmpty
    \/ FromStrReject
    \/ FromStrAccept
    \/ NextGroup
    \/ NextTerm
    \/ TermPanics
    \/ EndGroup
    \/ FromStrReturn

SpecParse == ParseInit /\ [][ParseNext]_vars

---------------------------------------------------------------------------
(* DurationCalculate: one call of saturated_add or saturated_sub *)

ArithInit ==
    /\ build \in {"release"}
    /\ pc = "call"
    /\ self_d \in DurationSamples
    /\ rhs_d \in DurationSamples
    /\ ret = Pending
    /\ ParseIdle /\ MainIdle

SaturatedAdd ==
    /\ pc = "call"
    /\ ret' = saturated_add(self_d, rhs_d)
    /\ pc' = "added"
    /\ UNCHANGED <<build, self_d, rhs_d, parseVars, mainVars>>

SaturatedSub ==
    /\ pc = "call"
    /\ ret' = saturated_sub(self_d, rhs_d)
    /\ pc' = "subtracted"
    /\ UNCHANGED <<build, self_d, rhs_d, parseVars, mainVars>>

ArithNext == SaturatedAdd \/ SaturatedSub

SpecArith == ArithInit /\ [][ArithNext]_vars

---------------------------------------------------------------------------
(* DisplayableDuration(d, compact) printed once *)

DisplayInit ==
    /\ build \in {"release"}
    /\ pc = "fmt"
    /\ d \in DurationSamples
    /\ compact \in BOOLEAN
    /\ stdout = <<>>
    /\ stdin_redirected = FALSE /\ lines = <<>> /\ line_no = 0
    /\ arg_str = <<>> /\ printed = FALSE
    /\ ParseIdle /\ ArithIdle

Display ==
    /\ pc = "fmt"
    /\ stdout' = Append(stdout, DisplayFmt(d, compact))
    /\ pc' = "shown"
    /\ UNCHANGED <<build, parseVars, arithVars, stdin_redirected, lines,
                   line_no, arg_str, compact, d, printed>>

DisplayNext == Display

SpecDisplay == DisplayInit /\ [][DisplayNext]_vars

---------------------------------------------------------------------------
(* main, from the accumulator on (main.rs:101-124); the prefixes are empty *)

\* a slip of the condition: "and" for "or"
ShouldPrintTotal_And(d_from_args, was_printed) ==
    d_from_args # Duration_zero /\ ~was_printed

\* main.rs:121
ShouldPrintTotal(d_from_args, was_printed) ==
    d_from_args # Duration_zero \/ ~was_printed

MainInit ==
    /\ build \in Builds
    /\ pc = "stdin"
    /\ stdin_redirected \in BOOLEAN
    /\ lines \in (IF stdin_redirected THEN SeqsUpTo(StdinLines, MaxLines)
                  ELSE {<<>>})
    /\ line_no = 0
    /\ arg_str \in ArgStrs
    /\ compact \in BOOLEAN
    /\ d = Duration_zero
    /\ printed = FALSE
    /\ stdout = <<>>
    /\ ParseIdle /\ ArithIdle

\* main.rs:106-111: a line that parses
ReadLine ==
    /\ pc = "stdin"
    /\ stdin_redirected
    /\ line_no < Len(lines)
    /\ from_str(lines[line_no + 1], build).kind = "Some"
    /\ d' = saturated_add(d, from_str(lines[line_no + 1], build).val)
    /\ line_no' = line_no + 1
    /\ UNCHANGED <<build, pc, parseVars, arithVars, stdin_redirected, lines,
                   arg_str, compact, printed, stdout>>

\* main.rs:108-109: "cannot parse", or a panic inside from_str
ReadLinePanics ==
    /\ pc = "stdin"
    /\ stdin_redirected
    /\ line_no < Len(lines)
    /\ from_str(lines[line_no + 1], build).kind # "Some"
    /\ pc' = "panicked"
    /\ UNCHANGED <<build, parseVars, arithVars, mainVars>>

\* main.rs:113-114
PrintStdinSum ==
    /\ pc = "stdin"
    /\ stdin_redirected
    /\ line_no = Len(lines)
    /\ printed' = TRUE
    /\ stdout' = Append(stdout, DisplayFmt(d, compact))
    /\ pc' = "args"
    /\ UNCHANGED <<build, parseVars, arithVars, stdin_redirected, lines,
                   line_no, arg_str, compact, d>>

\* main.rs:105: stdin is a terminal
SkipStdin ==
    /\ pc = "stdin"
    /\ ~stdin_redirected
    /\ pc' = "args"
    /\ UNCHANGED <<build, parseVars, arithVars, mainVars>>

\* main.rs:117-118
ArgsPanic ==
    /\ pc = "args"
    /\ from_str(arg_str, build).kind # "Some"
    /\ pc' = "panicked"
    /\ UNCHANGED <<build, parseVars, arithVars, mainVars>>

\* main.rs:117-124: the total is printed
PrintTotal ==
    /\ pc = "args"
    /\ from_str(arg_str, build).kind = "Some"
    /\ ShouldPrintTotal(from_str(arg_str, build).val, printed)
    /\ d' = saturated_add(d, from_str(arg_str, build).val)
    /\ stdout' = Append(stdout, DisplayFmt(d', compact))
    /\ pc' = "done"
    /\ UNCHANGED <<build, parseVars, arithVars, stdin_redirected, lines,
                   line_no, arg_str, compact, printed>>

\* main.rs:121: nothing more to print
SkipTotal ==
    /\ pc = "args"
    /\ from_str(arg_str, build).kind = "Some"
    /\ ~ShouldPrintTotal(from_str(arg_str, build).val, printed)
    /\ pc' = "done"
    /\ UNCHANGED <<build, parseVars, arithVars, mainVars>>

MainNext ==
    \/ ReadLine
    \/ ReadLinePanics
    \/ PrintStdinSum
    \/ SkipStdin
    \/ ArgsPanic
    \/ PrintTotal
    \/ SkipTotal

SpecMain == MainInit /\ [][MainNext]_vars

---------------------------------------------------------------------------
(* What the claims speak of, stated without the patterns: the grammar as   *)
(* an automaton over the characters, and the terms read off left to right  *)

\* the text before the first '#'
CommentCut(t) ==
    LET hashes == {i \in 1..Len(t) : t[i] = "#"}
        first == IF hashes = {} THEN Len(t) + 1
                 ELSE CHOOSE i \in hashes : \A j \in hashes : i <= j
    IN  SubSeq(t, 1, first - 1)

\* comment removed, then a '+' put in front of a line with no leading sign
SignedLine(t) ==
    LET e == CommentCut(t)
    IN  IF e # <<>> /\ e[1] \in SignChars THEN e ELSE <<"+">> \o e

\* States: "group" before a sign, "sign" after one, "count" inside a count,
\* "gap" between count and unit, "term" after a unit, "fail".
GrammarStep(q, c) ==
    CASE q = "group" ->
            IF c \in WhiteSpace THEN "group"
            ELSE IF c \in SignChars THEN "sign" ELSE "fail"
      [] q = "sign" ->
            IF c \in WhiteSpace THEN "sign"
            ELSE IF c \in DecimalDigit THEN "count" ELSE "fail"
      [] q = "count" ->
            IF c \in DecimalDigit THEN "count"
            ELSE IF c \in WhiteSpace THEN "gap"
            ELSE IF c \in LineUnits THEN "term" ELSE "fail"
      [] q = "gap" ->
            IF c \in WhiteSpace THEN "gap"
            ELSE IF c \in LineUnits THEN "term" ELSE "fail"
      [] q = "term" ->
            IF c \in WhiteSpace THEN "term"
            ELSE IF c \in DecimalDigit THEN "count"
            ELSE IF c \in SignChars THEN "sign" ELSE "fail"
      [] OTHER -> "fail"

RECURSIVE GrammarRun(_, _)
GrammarRun(q, t) ==
    IF t = <<>> THEN q ELSE GrammarRun(GrammarStep(q, t[1]), Tail(t))

\* one or more signed groups of one or more count+unit terms, nothing else
IsExpression(t) == GrammarRun("group", t) = "term"

UnitSeconds(u) ==
    CASE u = "y" -> 365 * 86400
      [] u = "d" -> 86400
      [] u = "h" -> 3600
      [] u = "m" -> 60
      [] u = "s" -> 1

\* count x unit-seconds, or -1 when the count is no decimal number or the
\* product is outside the duration range
TermSeconds(digs, u) ==
    IF \E i \in 1..Len(digs) : digs[i] \notin AsciiDigit THEN -1
    ELSE LET z == StripZeros(digs)
         IN  IF Len(z) > 9 THEN -1
             ELSE IF NatOf(z) > MaxSecs \div UnitSeconds(u) THEN -1
             ELSE NatOf(z) * UnitSeconds(u)

\* the terms of an expression, left to right, each with its group's sign
RECURSIVE TermsOf(_, _, _, _)
TermsOf(t, i, sgn, digs) ==
    IF i > Len(t) THEN <<>>
    ELSE IF t[i] \in SignChars
         THEN TermsOf(t, i + 1, IF t[i] = "-" THEN -1 ELSE 1, <<>>)
    ELSE IF t[i] \in DecimalDigit
         THEN TermsOf(t, i + 1, sgn, Append(digs, t[i]))
    ELSE IF t[i] \in LineUnits
         THEN <<[sgn |-> sgn, secs |-> TermSeconds(digs, t[i])]>>
              \o TermsOf(t, i + 1, sgn, <<>>)
    ELSE TermsOf(t, i + 1, sgn, digs)

Terms(t) == TermsOf(t, 1, 1, <<>>)

AllRepresentable(ts) == \A i \in 1..Len(ts) : ts[i].secs >= 0

\* the plain signed sum, and whether every partial sum stays in range
RECURSIVE SignedSum(_, _)
SignedSum(ts, acc) ==
    IF ts = <<>> THEN [ok |-> TRUE, total |-> acc]
    ELSE LET nxt == acc + ts[1].sgn * ts[1].secs
         IN  IF ts[1].secs < 0 \/ nxt > MaxSecs \/ nxt < -MaxSecs
             THEN [ok |-> FALSE, total |-> 0]
             ELSE SignedSum(Tail(ts), nxt)

\* term by term: the checked sum or difference, and the term itself when
\* that overflows
RECURSIVE TermwiseTotal(_, _)
TermwiseTotal(ts, acc) ==
    IF ts = <<>> THEN acc
    ELSE LET t == Dur(ts[1].secs, 0)
             r == IF ts[1].sgn = 1 THEN checked_add(acc, t)
                  ELSE checked_sub(acc, t)
         IN  TermwiseTotal(Tail(ts), IF r.kind = "Some" THEN r.val ELSE t)

\* whether some step of TermwiseTotal overflows
RECURSIVE TermwiseOverflows(_, _)
TermwiseOverflows(ts, acc) ==
    IF ts = <<>> THEN FALSE
    ELSE LET t == Dur(ts[1].secs, 0)
             r == IF ts[1].sgn = 1 THEN checked_add(acc, t)
                  ELSE checked_sub(acc, t)
         IN  r.kind # "Some" \/ TermwiseOverflows(Tail(ts), r.val)

\* what from_str has come to: its return value, or the panic
Outcome == IF pc = "panicked" THEN Panic ELSE result

Finished == pc \in {"returned", "panicked"}

---------------------------------------------------------------------------
(* Claims about from_str, under SpecParse *)

\* C1: for every line from_str accepts whose arithmetic stays inside the
\* duration range, the result is the sum over the signed groups, left to
\* right, of sign x (count x unit-seconds of every term of the group), with
\* y = 365 d; a line with no leading sign is read as one starting with '+';
\* and a '#' and what follows it change nothing: parse(e # c) = parse(e)
\* for every accepted expression e.
C1_ParseIsSignedSum ==
    /\ (pc = "returned" /\ result.kind = "Some")
          => LET sum == SignedSum(Terms(SignedLine(input)), 0)
             IN  sum.ok => result.val = Dur(sum.total, 0)
    /\ (Finished /\ input # <<>> /\ input[1] \notin SignChars)
          => Outcome = from_str(<<"+">> \o input, build)
    /\ (Finished /\ CommentCut(input) # input /\ CommentCut(input) # <<>>
           /\ from_str(CommentCut(input), build).kind = "Some")
          => Outcome = from_str(CommentCut(input), build)

\* the second test line of tests::test_from_str with two groups
C1_Witness ==
    /\ pc = "returned"
    /\ input = <<"-", "1", "y", " ", "3", "h", " ", "+", " ", "4", "0", "m">>
    /\ result = Some(Dur(-(365 * 86400 + 3 * 3600) + 40 * 60, 0))

\* C2: from_str returns None if and only if the line, after comment removal
\* and sign normalisation, is not made of one or more signed groups, each a
\* sign followed by one or more count+unit terms with optional blanks
\* between tokens; and nothing is extracted from a rejected line.
C2_RejectsExactlyMalformed ==
    /\ (pc # "from_str" /\ input # <<>>)
          => ((result = None) <=> ~IsExpression(SignedLine(input)))
    /\ (result = None)
          => (duration = Duration_zero /\ groups = <<>> /\ inner = <<>>)

\* "5x", an unknown unit, is rejected
C2_Witness ==
    /\ pc = "returned"
    /\ input = <<"5", "x">>
    /\ result = None

\* C3: from_str yields the zero duration, not an error, for the empty
\* string, for blanks only, and for a line that is only a comment.
C3_BlankOrCommentIsZero ==
    (pc = "returned"
        /\ \A i \in 1..Len(CommentCut(input)) :
              CommentCut(input)[i] \in WhiteSpace)
      => result = Some(Duration_zero)

\* C7: for every count c, from_str of c followed by "min" succeeds and
\* equals from_str of c followed by "m".
C7_MinIsMinutes ==
    (Finished /\ Len(input) > 3
        /\ SubSeq(input, Len(input) - 2, Len(input)) = <<"m", "i", "n">>
        /\ \A i \in 1..(Len(input) - 3) : input[i] \in AsciiDigit)
      => /\ Outcome.kind = "Some"
         /\ Outcome = from_str(SubSeq(input, 1, Len(input) - 2), build)

\* C8: for every line that passes the grammar check, whatever the size of
\* its (decimal) counts, from_str returns a duration and does not abort.
C8_OverflowNeverAborts ==
    (\A i \in 1..Len(input) : input[i] \notin (DecimalDigit \ AsciiDigit))
      => pc # "panicked"

\* the group subtotal of C9 as claimed: the terms added with saturation
RECURSIVE GroupSubtotal(_, _, _)
GroupSubtotal(caps, acc, bld) ==
    IF caps = <<>> THEN acc
    ELSE GroupSubtotal(Tail(caps),
            saturated_add(acc,
                token_to_duration(i64_from_str(caps[1].count).val,
                                  caps[1].unit, bld).val.val),
            bld)

\* the running total of C9 as claimed: each subtotal combined under the
\* group's sign, and the subtotal alone when that overflows
RECURSIVE SubtotalWise(_, _, _)
SubtotalWise(gs, acc, bld) ==
    IF gs = <<>> THEN acc
    ELSE LET sub == GroupSubtotal(DurationCaptures(gs[1].duration, 1),
                                  Duration_zero, bld)
             r == operator_function(gs[1].sign, acc, sub)
         IN  SubtotalWise(Tail(gs), IF r.kind = "Some" THEN r.val ELSE sub,
                          bld)

RECURSIVE TermsLeft(_)
TermsLeft(gs) ==
    IF gs = <<>> THEN 0
    ELSE Cardinality({i \in 1..Len(gs[1].duration) :
                         gs[1].duration[i] \in LineUnits})
         + TermsLeft(Tail(gs))

---------------------------------------------------------------------------
(* Claims about saturated_add and saturated_sub, under SpecArith *)

\* a + b and a - b as exact values, in range or not
ExactSum(a, b) ==
    Dur(a.secs + b.secs + ((a.millis + b.millis) \div 1000),
        (a.millis + b.millis) % 1000)

ExactDiff(a, b) ==
    Dur(a.secs - b.secs + ((a.millis - b.millis) \div 1000),
        (a.millis - b.millis) % 1000)

\* C4: saturated_add(a, b) is a + b whenever that is representable and MAX
\* whenever a + b exceeds MAX; saturated_sub(a, b) is a - b whenever that is
\* representable and MIN whenever a - b is below MIN; neither fails; and
\* saturated_add(MAX, p) = MAX, saturated_sub(MIN, p) = MIN for positive p.
C4_SaturatesAtNearBoundary ==
    /\ pc = "added" =>
          /\ InBounds(ExactSum(self_d, rhs_d)) => ret = ExactSum(self_d, rhs_d)
          /\ DurLess(Duration_MAX, ExactSum(self_d, rhs_d)) => ret = Duration_MAX
          /\ InBounds(ret)
          /\ (self_d = Duration_MAX /\ DurLess(Duration_zero, rhs_d))
                => ret = Duration_MAX
    /\ pc = "subtracted" =>
          /\ InBounds(ExactDiff(self_d, rhs_d)) => ret = ExactDiff(self_d, rhs_d)
          /\ DurLess(ExactDiff(self_d, rhs_d), Duration_MIN) => ret = Duration_MIN
          /\ InBounds(ret)
          /\ (self_d = Duration_MIN /\ DurLess(Duration_zero, rhs_d))
                => ret = Duration_MIN

\* MAX plus one second is MAX
C4_Witness ==
    /\ pc = "added"
    /\ self_d = Duration_MAX
    /\ rhs_d = Dur(1, 0)
    /\ ret = Duration_MAX

\* C10: both operations clamp to the boundary on the side of the overflow:
\* saturated_add returns MIN when a + b is below MIN, and saturated_sub
\* returns MAX when a - b is above MAX.
C10_ClampsOnTheOverflowSide ==
    /\ (pc = "added" /\ DurLess(ExactSum(self_d, rhs_d), Duration_MIN))
          => ret = Duration_MIN
    /\ (pc = "subtracted" /\ DurLess(Duration_MAX, ExactDiff(self_d, rhs_d)))
          => ret = Duration_MAX

---------------------------------------------------------------------------
(* Claims about the formatter, under SpecDisplay *)

\* |v| in whole seconds
WholeSeconds(v) ==
    IF v.secs >= 0 THEN v.secs
    ELSE IF v.millis > 0 THEN -(v.secs + 1) ELSE -v.secs

TwoDigits(n) == <<Digits[(n \div 10) + 1], Digits[(n % 10) + 1]>>

NoBlanks(t) == SelectSeq(t, LAMBDA c : c # " ")

\* C5: for every representable v and both values of compact, the text is
\* [sign]H'h' MM'm' SS's': the sign is '-' exactly when v < 0, H is
\* |v| div 3600 unpadded, MM = (|v| mod 3600) div 60 and SS = |v| mod 60 are
\* in 0..59 and printed with two digits, H*3600 + MM*60 + SS = |v| in whole
\* seconds; compact differs only by dropping the two separating blanks.
C5_FormatIsSignHMS ==
    pc = "shown" =>
        LET mag == WholeSeconds(d)
            H == mag \div 3600
            MM == (mag % 3600) \div 60
            SS == mag % 60
            sgn == IF DurLess(d, Duration_zero) THEN <<"-">> ELSE <<>>
            spaced == sgn \o DecimalOf(H) \o <<"h", " ">>
                      \o TwoDigits(MM) \o <<"m", " ">>
                      \o TwoDigits(SS) \o <<"s">>
        IN  /\ H >= 0 /\ MM \in 0..59 /\ SS \in 0..59
            /\ H * 3600 + MM * 60 + SS = mag
            /\ stdout = <<IF compact THEN NoBlanks(spaced) ELSE spaced>>
            /\ Len(NoBlanks(spaced)) = Len(spaced) - 2
            /\ d = Duration_zero => stdout[1][1] # "-"

\* 5400 s in the compact form is "1h30m00s"
C5_Witness ==
    /\ pc = "shown"
    /\ d = Dur(5400, 0)
    /\ compact
    /\ stdout = << <<"1", "h", "3", "0", "m", "0", "0", "s">> >>

---------------------------------------------------------------------------
(* Claims about main, under SpecMain *)

\* saturated_add of the first n parsed lines, in input order, from zero
RECURSIVE StdinSum(_)
StdinSum(n) ==
    IF n = 0 THEN Duration_zero
    ELSE saturated_add(StdinSum(n - 1), from_str(lines[n], build).val)

\* C6: the accumulator starts at zero and is changed only by saturated_add
\* of each parsed line in input order; the stdin subtotal is printed first,
\* once, after every line was added; the grand total, the subtotal
\* saturated_add parse(a), is printed after it and is omitted exactly when
\* stdin was read and parse(a) is zero; with no redirected stdin exactly one
\* line, the formatted parse(a), is printed.
C6_MainPrintsSubtotalThenTotal ==
    /\ pc = "stdin" =>
          /\ stdout = <<>> /\ ~printed
          /\ d = (IF stdin_redirected THEN StdinSum(line_no)
                  ELSE Duration_zero)
    /\ pc = "args" =>
          /\ d = (IF stdin_redirected THEN StdinSum(Len(lines))
                  ELSE Duration_zero)
          /\ printed = stdin_redirected
          /\ stdout = (IF stdin_redirected
                       THEN <<DisplayFmt(StdinSum(Len(lines)), compact)>>
                       ELSE <<>>)
    /\ pc = "done" =>
          LET a == from_str(arg_str, build).val
              sub == StdinSum(Len(lines))
          IN  IF stdin_redirected
              THEN stdout =
                     <<DisplayFmt(sub, compact)>>
                     \o (IF a = Duration_zero THEN <<>>
                         ELSE <<DisplayFmt(saturated_add(sub, a), compact)>>)
              ELSE stdout = <<DisplayFmt(a, compact)>>

\* the run of the module documentation: lines "24h" and "24m", argument
\* "25m": "24h 24m 00s" then "24h 49m 00s"
C6_Witness ==
    /\ pc = "done"
    /\ stdin_redirected
    /\ lines = << <<"2", "4", "h">>, <<"2", "4", "m">> >>
    /\ arg_str = <<"2", "5", "m">>
    /\ stdout = << <<"2", "4", "h", " ", "2", "4", "m", " ", "0", "0", "s">>,
                   <<"2", "4", "h", " ", "4", "9", "m", " ", "0", "0", "s">> >>

===========================================================================
